---------------------------- MODULE Spec2Model ----------------------------
(***************************************************************************)
(* Model of data_extraction_processing.py: retrieve_historical_returns     *)
(* (configuration checks, availability probes, combined fetch),            *)
(* construct_key_metrics and backtest_resample.                            *)
(*                                                                         *)
(* Python strings are sequences of one-character strings, so that slicing  *)
(* (s[:4], s[4:], s[:-1]), int() and strptime() are computed, not assumed. *)
(* Exceptions are records [exc |-> <Python class>, msg |-> <text>, ...].   *)
(* The names used by the specification map to the code's exceptions as     *)
(*   NotFound        = FileNotFoundError                                   *)
(*   ParseError      = ValueError  "Error parsing JSON file"               *)
(*   SchemaError     = KeyError                                            *)
(*   ValidationError = ValueError  (dates, tokens, durations)              *)
(*   DataUnavailable = ValueError  "Historical data ... does not exist"    *)
(*   ComputationError= RuntimeError                                        *)
(***************************************************************************)
EXTENDS Integers, Sequences, FiniteSets, TLC

VARIABLES
    source,            \* the configuration source handed to retrieve_historical_returns
    pc,                \* position of the running call
    tickers,           \* ETFInfo["tickers"] once the checks passed
    sample_period_start, \* derived start date (string)
    sample_period_end, \* data_params["sample_period_end"] (string)
    etf_start_years,   \* years returned by the probes so far
    calls,             \* calls made to yf.download, in order
    result,            \* what retrieve_historical_returns returned or raised
    returns,           \* the DataFrame handed to construct_key_metrics / backtest_resample
    duration_months,   \* the duration handed to backtest_resample
    metrics            \* what construct_key_metrics / backtest_resample returned or raised

vars == <<source, pc, tickers, sample_period_start, sample_period_end,
          etf_start_years, calls, result, returns, duration_months, metrics>>

(***************************************************************************)
(* Bounds of the model.                                                    *)
(***************************************************************************)
\* longest ticker list in a configuration
MaxTickers == 2
\* a probe returns a first year in startYear-1 .. startYear+MaxYearOffset
MaxYearOffset == 1
\* most rows of a return table
MaxRows == 4

(***************************************************************************)
(* Python strings.                                                         *)
(***************************************************************************)
\* A string is the sequence of its characters. A character that a TLA+ string
\* cannot hold is written by its code point: "U+FF12" is the one character
\* FULLWIDTH DIGIT TWO, "U+000B" the vertical tab.
DigitChars == <<"0", "1", "2", "3", "4", "5", "6", "7", "8", "9">>

\* the decimal digits (category Nd of Unicode 14.0, the version of Python 3.11):
\* one row per script, zero to nine
DecimalDigits ==
  <<
     <<"0", "1", "2", "3", "4", "5", "6", "7", "8", "9">>,
     <<"U+0660", "U+0661", "U+0662", "U+0663", "U+0664", "U+0665", "U+0666", "U+0667", "U+0668", "U+0669">>,
     <<"U+06F0", "U+06F1", "U+06F2", "U+06F3", "U+06F4", "U+06F5", "U+06F6", "U+06F7", "U+06F8", "U+06F9">>,
     <<"U+07C0", "U+07C1", "U+07C2", "U+07C3", "U+07C4", "U+07C5", "U+07C6", "U+07C7", "U+07C8", "U+07C9">>,
     <<"U+0966", "U+0967", "U+0968", "U+0969", "U+096A", "U+096B", "U+096C", "U+096D", "U+096E", "U+096F">>,
     <<"U+09E6", "U+09E7", "U+09E8", "U+09E9", "U+09EA", "U+09EB", "U+09EC", "U+09ED", "U+09EE", "U+09EF">>,
     <<"U+0A66", "U+0A67", "U+0A68", "U+0A69", "U+0A6A", "U+0A6B", "U+0A6C", "U+0A6D", "U+0A6E", "U+0A6F">>,
     <<"U+0AE6", "U+0AE7", "U+0AE8", "U+0AE9", "U+0AEA", "U+0AEB", "U+0AEC", "U+0AED", "U+0AEE", "U+0AEF">>,
     <<"U+0B66", "U+0B67", "U+0B68", "U+0B69", "U+0B6A", "U+0B6B", "U+0B6C", "U+0B6D", "U+0B6E", "U+0B6F">>,
     <<"U+0BE6", "U+0BE7", "U+0BE8", "U+0BE9", "U+0BEA", "U+0BEB", "U+0BEC", "U+0BED", "U+0BEE", "U+0BEF">>,
     <<"U+0C66", "U+0C67", "U+0C68", "U+0C69", "U+0C6A", "U+0C6B", "U+0C6C", "U+0C6D", "U+0C6E", "U+0C6F">>,
     <<"U+0CE6", "U+0CE7", "U+0CE8", "U+0CE9", "U+0CEA", "U+0CEB", "U+0CEC", "U+0CED", "U+0CEE", "U+0CEF">>,
     <<"U+0D66", "U+0D67", "U+0D68", "U+0D69", "U+0D6A", "U+0D6B", "U+0D6C", "U+0D6D", "U+0D6E", "U+0D6F">>,
     <<"U+0DE6", "U+0DE7", "U+0DE8", "U+0DE9", "U+0DEA", "U+0DEB", "U+0DEC", "U+0DED", "U+0DEE", "U+0DEF">>,
     <<"U+0E50", "U+0E51", "U+0E52", "U+0E53", "U+0E54", "U+0E55", "U+0E56", "U+0E57", "U+0E58", "U+0E59">>,
     <<"U+0ED0", "U+0ED1", "U+0ED2", "U+0ED3", "U+0ED4", "U+0ED5", "U+0ED6", "U+0ED7", "U+0ED8", "U+0ED9">>,
     <<"U+0F20", "U+0F21", "U+0F22", "U+0F23", "U+0F24", "U+0F25", "U+0F26", "U+0F27", "U+0F28", "U+0F29">>,
     <<"U+1040", "U+1041", "U+1042", "U+1043", "U+1044", "U+1045", "U+1046", "U+1047", "U+1048", "U+1049">>,
     <<"U+1090", "U+1091", "U+1092", "U+1093", "U+1094", "U+1095", "U+1096", "U+1097", "U+1098", "U+1099">>,
     <<"U+17E0", "U+17E1", "U+17E2", "U+17E3", "U+17E4", "U+17E5", "U+17E6", "U+17E7", "U+17E8", "U+17E9">>,
     <<"U+1810", "U+1811", "U+1812", "U+1813", "U+1814", "U+1815", "U+1816", "U+1817", "U+1818", "U+1819">>,
     <<"U+1946", "U+1947", "U+1948", "U+1949", "U+194A", "U+194B", "U+194C", "U+194D", "U+194E", "U+194F">>,
     <<"U+19D0", "U+19D1", "U+19D2", "U+19D3", "U+19D4", "U+19D5", "U+19D6", "U+19D7", "U+19D8", "U+19D9">>,
     <<"U+1A80", "U+1A81", "U+1A82", "U+1A83", "U+1A84", "U+1A85", "U+1A86", "U+1A87", "U+1A88", "U+1A89">>,
     <<"U+1A90", "U+1A91", "U+1A92", "U+1A93", "U+1A94", "U+1A95", "U+1A96", "U+1A97", "U+1A98", "U+1A99">>,
     <<"U+1B50", "U+1B51", "U+1B52", "U+1B53", "U+1B54", "U+1B55", "U+1B56", "U+1B57", "U+1B58", "U+1B59">>,
     <<"U+1BB0", "U+1BB1", "U+1BB2", "U+1BB3", "U+1BB4", "U+1BB5", "U+1BB6", "U+1BB7", "U+1BB8", "U+1BB9">>,
     <<"U+1C40", "U+1C41", "U+1C42", "U+1C43", "U+1C44", "U+1C45", "U+1C46", "U+1C47", "U+1C48", "U+1C49">>,
     <<"U+1C50", "U+1C51", "U+1C52", "U+1C53", "U+1C54", "U+1C55", "U+1C56", "U+1C57", "U+1C58", "U+1C59">>,
     <<"U+A620", "U+A621", "U+A622", "U+A623", "U+A624", "U+A625", "U+A626", "U+A627", "U+A628", "U+A629">>,
     <<"U+A8D0", "U+A8D1", "U+A8D2", "U+A8D3", "U+A8D4", "U+A8D5", "U+A8D6", "U+A8D7", "U+A8D8", "U+A8D9">>,
     <<"U+A900", "U+A901", "U+A902", "U+A903", "U+A904", "U+A905", "U+A906", "U+A907", "U+A908", "U+A909">>,
     <<"U+A9D0", "U+A9D1", "U+A9D2", "U+A9D3", "U+A9D4", "U+A9D5", "U+A9D6", "U+A9D7", "U+A9D8", "U+A9D9">>,
     <<"U+A9F0", "U+A9F1", "U+A9F2", "U+A9F3", "U+A9F4", "U+A9F5", "U+A9F6", "U+A9F7", "U+A9F8", "U+A9F9">>,
     <<"U+AA50", "U+AA51", "U+AA52", "U+AA53", "U+AA54", "U+AA55", "U+AA56", "U+AA57", "U+AA58", "U+AA59">>,
     <<"U+ABF0", "U+ABF1", "U+ABF2", "U+ABF3", "U+ABF4", "U+ABF5", "U+ABF6", "U+ABF7", "U+ABF8", "U+ABF9">>,
     <<"U+FF10", "U+FF11", "U+FF12", "U+FF13", "U+FF14", "U+FF15", "U+FF16", "U+FF17", "U+FF18", "U+FF19">>,
     <<"U+104A0", "U+104A1", "U+104A2", "U+104A3", "U+104A4", "U+104A5", "U+104A6", "U+104A7", "U+104A8", "U+104A9">>,
     <<"U+10D30", "U+10D31", "U+10D32", "U+10D33", "U+10D34", "U+10D35", "U+10D36", "U+10D37", "U+10D38", "U+10D39">>,
     <<"U+11066", "U+11067", "U+11068", "U+11069", "U+1106A", "U+1106B", "U+1106C", "U+1106D", "U+1106E", "U+1106F">>,
     <<"U+110F0", "U+110F1", "U+110F2", "U+110F3", "U+110F4", "U+110F5", "U+110F6", "U+110F7", "U+110F8", "U+110F9">>,
     <<"U+11136", "U+11137", "U+11138", "U+11139", "U+1113A", "U+1113B", "U+1113C", "U+1113D", "U+1113E", "U+1113F">>,
     <<"U+111D0", "U+111D1", "U+111D2", "U+111D3", "U+111D4", "U+111D5", "U+111D6", "U+111D7", "U+111D8", "U+111D9">>,
     <<"U+112F0", "U+112F1", "U+112F2", "U+112F3", "U+112F4", "U+112F5", "U+112F6", "U+112F7", "U+112F8", "U+112F9">>,
     <<"U+11450", "U+11451", "U+11452", "U+11453", "U+11454", "U+11455", "U+11456", "U+11457", "U+11458", "U+11459">>,
     <<"U+114D0", "U+114D1", "U+114D2", "U+114D3", "U+114D4", "U+114D5", "U+114D6", "U+114D7", "U+114D8", "U+114D9">>,
     <<"U+11650", "U+11651", "U+11652", "U+11653", "U+11654", "U+11655", "U+11656", "U+11657", "U+11658", "U+11659">>,
     <<"U+116C0", "U+116C1", "U+116C2", "U+116C3", "U+116C4", "U+116C5", "U+116C6", "U+116C7", "U+116C8", "U+116C9">>,
     <<"U+11730", "U+11731", "U+11732", "U+11733", "U+11734", "U+11735", "U+11736", "U+11737", "U+11738", "U+11739">>,
     <<"U+118E0", "U+118E1", "U+118E2", "U+118E3", "U+118E4", "U+118E5", "U+118E6", "U+118E7", "U+118E8", "U+118E9">>,
     <<"U+11950", "U+11951", "U+11952", "U+11953", "U+11954", "U+11955", "U+11956", "U+11957", "U+11958", "U+11959">>,
     <<"U+11C50", "U+11C51", "U+11C52", "U+11C53", "U+11C54", "U+11C55", "U+11C56", "U+11C57", "U+11C58", "U+11C59">>,
     <<"U+11D50", "U+11D51", "U+11D52", "U+11D53", "U+11D54", "U+11D55", "U+11D56", "U+11D57", "U+11D58", "U+11D59">>,
     <<"U+11DA0", "U+11DA1", "U+11DA2", "U+11DA3", "U+11DA4", "U+11DA5", "U+11DA6", "U+11DA7", "U+11DA8", "U+11DA9">>,
     <<"U+16A60", "U+16A61", "U+16A62", "U+16A63", "U+16A64", "U+16A65", "U+16A66", "U+16A67", "U+16A68", "U+16A69">>,
     <<"U+16AC0", "U+16AC1", "U+16AC2", "U+16AC3", "U+16AC4", "U+16AC5", "U+16AC6", "U+16AC7", "U+16AC8", "U+16AC9">>,
     <<"U+16B50", "U+16B51", "U+16B52", "U+16B53", "U+16B54", "U+16B55", "U+16B56", "U+16B57", "U+16B58", "U+16B59">>,
     <<"U+1D7CE", "U+1D7CF", "U+1D7D0", "U+1D7D1", "U+1D7D2", "U+1D7D3", "U+1D7D4", "U+1D7D5", "U+1D7D6", "U+1D7D7">>,
     <<"U+1D7D8", "U+1D7D9", "U+1D7DA", "U+1D7DB", "U+1D7DC", "U+1D7DD", "U+1D7DE", "U+1D7DF", "U+1D7E0", "U+1D7E1">>,
     <<"U+1D7E2", "U+1D7E3", "U+1D7E4", "U+1D7E5", "U+1D7E6", "U+1D7E7", "U+1D7E8", "U+1D7E9", "U+1D7EA", "U+1D7EB">>,
     <<"U+1D7EC", "U+1D7ED", "U+1D7EE", "U+1D7EF", "U+1D7F0", "U+1D7F1", "U+1D7F2", "U+1D7F3", "U+1D7F4", "U+1D7F5">>,
     <<"U+1D7F6", "U+1D7F7", "U+1D7F8", "U+1D7F9", "U+1D7FA", "U+1D7FB", "U+1D7FC", "U+1D7FD", "U+1D7FE", "U+1D7FF">>,
     <<"U+1E140", "U+1E141", "U+1E142", "U+1E143", "U+1E144", "U+1E145", "U+1E146", "U+1E147", "U+1E148", "U+1E149">>,
     <<"U+1E2F0", "U+1E2F1", "U+1E2F2", "U+1E2F3", "U+1E2F4", "U+1E2F5", "U+1E2F6", "U+1E2F7", "U+1E2F8", "U+1E2F9">>,
     <<"U+1E950", "U+1E951", "U+1E952", "U+1E953", "U+1E954", "U+1E955", "U+1E956", "U+1E957", "U+1E958", "U+1E959">>,
     <<"U+1FBF0", "U+1FBF1", "U+1FBF2", "U+1FBF3", "U+1FBF4", "U+1FBF5", "U+1FBF6", "U+1FBF7", "U+1FBF8", "U+1FBF9">>
  >>

\* the regex class \d and the digits int() reads: any Unicode decimal digit
IsDigit(c) == \E r \in 1..Len(DecimalDigits) : \E i \in 1..10 : DecimalDigits[r][i] = c

DigitVal(c) ==
    (CHOOSE i \in 1..10 : \E r \in 1..Len(DecimalDigits) : DecimalDigits[r][i] = c) - 1

\* the characters int() strips from both ends: tab, line feed, vertical tab, form
\* feed, carriage return, space, NEL, no-break space and the Unicode spaces
\* (U+001C to U+001F, which str.strip removes, are not among them)
IsSpace(c) ==
    c \in {"\t", "\n", "U+000B", "\f", "\r", " ", "U+0085", "U+00A0", "U+1680",
           "U+2000", "U+2001", "U+2002", "U+2003", "U+2004", "U+2005", "U+2006",
           "U+2007", "U+2008", "U+2009", "U+200A", "U+2028", "U+2029", "U+202F",
           "U+205F", "U+3000"}

\* s[:n]
Take(s, n) == SubSeq(s, 1, IF n < Len(s) THEN n ELSE Len(s))

\* s[n:]
Drop(s, n) == SubSeq(s, (IF n < Len(s) THEN n ELSE Len(s)) + 1, Len(s))

\* s[:-1]
DropLast(s) == SubSeq(s, 1, Len(s) - 1)

AllDigits(s) == Len(s) > 0 /\ \A i \in 1..Len(s) : IsDigit(s[i])

RECURSIVE NatVal(_)
\* the number a run of digits (with underscores between them) writes
NatVal(s) == IF Len(s) = 0 THEN 0
             ELSE IF s[Len(s)] = "_" THEN NatVal(DropLast(s))
             ELSE 10 * NatVal(DropLast(s)) + DigitVal(s[Len(s)])

RECURSIVE LStrip(_)
LStrip(s) == IF Len(s) > 0 /\ IsSpace(s[1]) THEN LStrip(Drop(s, 1)) ELSE s

RECURSIVE RStrip(_)
RStrip(s) == IF Len(s) > 0 /\ IsSpace(s[Len(s)]) THEN RStrip(DropLast(s)) ELSE s

\* s.strip()
Strip(s) == RStrip(LStrip(s))

\* digits, single underscores allowed between two of them
DigitRun(s) ==
    /\ Len(s) > 0
    /\ IsDigit(s[1])
    /\ IsDigit(s[Len(s)])
    /\ \A i \in 1..Len(s) : IsDigit(s[i]) \/ s[i] = "_"
    /\ \A i \in 1..(Len(s) - 1) : ~(s[i] = "_" /\ s[i + 1] = "_")

\* int(s) succeeds: blanks around, an optional sign, then a run of digits
IntOk(s) ==
    LET b == Strip(s)
    IN  \/ DigitRun(b)
        \/ Len(b) > 1 /\ b[1] \in {"-", "+"} /\ DigitRun(Drop(b, 1))

\* int(s), for IntOk(s)
IntVal(s) ==
    LET b == Strip(s)
    IN  IF b[1] = "-" THEN 0 - NatVal(Drop(b, 1))
        ELSE IF b[1] = "+" THEN NatVal(Drop(b, 1))
        ELSE NatVal(b)

RECURSIVE NatStr(_)
NatStr(n) == IF n < 10 THEN <<DigitChars[n + 1]>>
             ELSE NatStr(n \div 10) \o <<DigitChars[(n % 10) + 1]>>

\* str(n), as the f-string {n} formats an int
IntStr(n) == IF n < 0 THEN <<"-">> \o NatStr(0 - n) ELSE NatStr(n)

(***************************************************************************)
(* Calendar.                                                               *)
(***************************************************************************)
IsLeap(y) == (y % 4 = 0 /\ y % 100 # 0) \/ y % 400 = 0

DaysInMonth(y, m) ==
    IF m = 2 THEN (IF IsLeap(y) THEN 29 ELSE 28)
    ELSE IF m \in {4, 6, 9, 11} THEN 30 ELSE 31

(***************************************************************************)
(* datetime.datetime.strptime(s, "%Y-%m-%d") succeeds.                     *)
(* The format compiles to the regex (\d\d\d\d)-(%m)-(%d) with              *)
(*   %m = 1[0-2] | 0[1-9] | [1-9]                                          *)
(*   %d = 3[01] | [12]\d | 0[1-9] | [1-9] | " "[1-9]                       *)
(* where \d is any Unicode decimal digit and the bracketed classes are     *)
(* ASCII. The whole string must be consumed and the fields, read by int(), *)
(* must name a day of the calendar (year >= 1).                            *)
(***************************************************************************)
OneToNine == {"1", "2", "3", "4", "5", "6", "7", "8", "9"}

YearFieldOk(f) == Len(f) = 4 /\ \A i \in 1..4 : IsDigit(f[i])

MonthFieldOk(f) ==
    \/ Len(f) = 2 /\ f[1] = "1" /\ f[2] \in {"0", "1", "2"}
    \/ Len(f) = 2 /\ f[1] = "0" /\ f[2] \in OneToNine
    \/ Len(f) = 1 /\ f[1] \in OneToNine

DayFieldOk(f) ==
    \/ Len(f) = 2 /\ f[1] = "3" /\ f[2] \in {"0", "1"}
    \/ Len(f) = 2 /\ f[1] \in {"1", "2"} /\ IsDigit(f[2])
    \/ Len(f) = 2 /\ f[1] = "0" /\ f[2] \in OneToNine
    \/ Len(f) = 1 /\ f[1] \in OneToNine
    \/ Len(f) = 2 /\ f[1] = " " /\ f[2] \in OneToNine

Dashes(s) == {i \in 1..Len(s) : s[i] = "-"}

strptime_ok(s) ==
    /\ Cardinality(Dashes(s)) = 2
    /\ LET d1 == CHOOSE i \in Dashes(s) : \A j \in Dashes(s) : i <= j
           d2 == CHOOSE i \in Dashes(s) : \A j \in Dashes(s) : j <= i
           Y  == SubSeq(s, 1, d1 - 1)
           M  == SubSeq(s, d1 + 1, d2 - 1)
           D  == SubSeq(s, d2 + 1, Len(s))
       IN  /\ YearFieldOk(Y)
           /\ MonthFieldOk(M)
           /\ DayFieldOk(D)
           /\ IntVal(Y) >= 1
           /\ IntVal(D) <= DaysInMonth(IntVal(Y), IntVal(M))

(***************************************************************************)
(* The configuration document (the decoded JSON of ETFInfo_path).          *)
(***************************************************************************)
T_1d  == <<"1", "d">>
T_5d  == <<"5", "d">>
T_1mo == <<"1", "m", "o">>
T_3mo == <<"3", "m", "o">>
T_6mo == <<"6", "m", "o">>
T_1y  == <<"1", "y">>
T_2y  == <<"2", "y">>
T_5y  == <<"5", "y">>
T_10y == <<"1", "0", "y">>
\* values that are not accepted tokens
T_2wk == <<"2", "w", "k">>
T_5yr == <<"5", "y", "r">>

accepted_interval_values ==
    {T_1d, T_5d, T_1mo, T_3mo, T_6mo, T_1y, T_2y, T_5y, T_10y}

required_keys == <<"sample_time_step", "total_sample_period", "sample_period_end">>

(***************************************************************************)
(* What json.load returns: a record whose t is the Python type of the      *)
(* value. A str carries its characters, a list its items, a dict the       *)
(* function from its keys to its values.                                   *)
(***************************************************************************)
JNull       == [t |-> "NoneType"]
JBool       == [t |-> "bool"]
JInt        == [t |-> "int"]
JFloat      == [t |-> "float"]
JStr(chars) == [t |-> "str", chars |-> chars]
JList(items) == [t |-> "list", items |-> items]
JDict(items) == [t |-> "dict", items |-> items]

\* the characters of the keys the code looks for
KeyChars(k) ==
    IF k = "tickers" THEN <<"t", "i", "c", "k", "e", "r", "s">>
    ELSE IF k = "dataParameters"
    THEN <<"d", "a", "t", "a", "P", "a", "r", "a", "m", "e", "t", "e", "r", "s">>
    ELSE IF k = "sample_time_step"
    THEN <<"s", "a", "m", "p", "l", "e", "_", "t", "i", "m", "e", "_", "s", "t", "e", "p">>
    ELSE IF k = "total_sample_period"
    THEN <<"t", "o", "t", "a", "l", "_", "s", "a", "m", "p", "l", "e", "_",
           "p", "e", "r", "i", "o", "d">>
    ELSE <<"s", "a", "m", "p", "l", "e", "_", "p", "e", "r", "i", "o", "d", "_", "e", "n", "d">>

\* sub in s, for two strings
IsSubstring(sub, s) ==
    \E i \in 0..(Len(s) - Len(sub)) : SubSeq(s, i + 1, i + Len(sub)) = sub

\* "key in v" raises TypeError: v is not iterable
NotIterable(v) == v.t \in {"NoneType", "bool", "int", "float"}

\* "key in v", for a str key and an iterable v: a key of the dict, an item of
\* the list, a substring of the str
HasKey(v, k) ==
    IF v.t = "dict" THEN k \in DOMAIN v.items
    ELSE IF v.t = "list" THEN \E i \in 1..Len(v.items) : v.items[i] = JStr(KeyChars(k))
    ELSE IsSubstring(KeyChars(k), v.chars)

NoError == [exc |-> "none", msg |-> "", arg |-> <<>>, bundle |-> <<>>]

\* an exception: its class, its message text, the values formatted into the text
Raise(e, m, a) == [exc |-> e, msg |-> m, arg |-> a, bundle |-> <<>>]

\* lines 43-52: the path does not exist (line 45), cannot be opened as a file
\* (line 48), or json.load raises (line 50); only json.JSONDecodeError is caught
\* and raised again as ValueError (lines 51-52); the ValueError that json.load
\* raises on an integer of more digits than int() converts is not
LoadError(src) ==
    IF src.kind = "missing"
    THEN Raise("FileNotFoundError", "Error: The file does not exist.", <<>>)
    ELSE IF src.kind = "directory"
    THEN Raise("IsADirectoryError", "Is a directory", <<>>)
    ELSE IF src.kind = "unreadable"
    THEN Raise("PermissionError", "Permission denied", <<>>)
    ELSE IF src.kind = "not_text"
    THEN Raise("UnicodeDecodeError", "codec can't decode byte", <<>>)
    ELSE IF src.kind = "too_deep"
    THEN Raise("RecursionError", "maximum recursion depth exceeded", <<>>)
    ELSE IF src.kind = "huge_int"
    THEN Raise("ValueError", "Exceeds the limit (4300 digits) for integer string conversion",
               <<>>)
    ELSE IF src.kind = "not_json"
    THEN Raise("ValueError", "Error parsing JSON file", <<>>)
    ELSE NoError

\* "key in v" on a value that is not iterable
NotIterableError(v) == Raise("TypeError", "argument of type is not iterable", <<v.t>>)

\* v["key"] on a str or a list
IndexError(v) ==
    IF v.t = "str"
    THEN Raise("TypeError", "string indices must be integers, not 'str'", <<>>)
    ELSE Raise("TypeError", "list indices must be integers or slices, not str", <<>>)

\* the first key of required_keys that data_params lacks (0: none)
FirstMissingKey(d) ==
    IF \A i \in 1..Len(required_keys) : HasKey(d, required_keys[i]) THEN 0
    ELSE CHOOSE i \in 1..Len(required_keys) :
            /\ ~HasKey(d, required_keys[i])
            /\ \A j \in 1..(i - 1) : HasKey(d, required_keys[j])

\* lines 54-68: the schema checks, in the order of the code. ETFInfo and
\* data_params are whatever json.load returned: "in" raises TypeError on a
\* number, a boolean or null, and ETFInfo["tickers"] on a str or a list
SchemaError(doc) ==
    IF NotIterable(doc) THEN NotIterableError(doc)
    ELSE IF ~HasKey(doc, "tickers")
    THEN Raise("KeyError", "Missing or invalid 'tickers' in JSON file.", <<>>)
    ELSE IF doc.t # "dict" THEN IndexError(doc)
    ELSE IF doc.items["tickers"].t # "list"
    THEN Raise("KeyError", "Missing or invalid 'tickers' in JSON file.", <<>>)
    ELSE IF ~HasKey(doc, "dataParameters")
    THEN Raise("KeyError", "Missing 'dataParameters' in JSON file.", <<>>)
    ELSE IF NotIterable(doc.items["dataParameters"])
    THEN NotIterableError(doc.items["dataParameters"])
    ELSE IF FirstMissingKey(doc.items["dataParameters"]) # 0
    THEN Raise("KeyError", "Missing key in dataParameters.",
               <<required_keys[FirstMissingKey(doc.items["dataParameters"])]>>)
    ELSE NoError

\* "value not in accepted_interval_values": a value that is no str equals none
IsAcceptedInterval(v) == v.t = "str" /\ v.chars \in accepted_interval_values

\* lines 77-81: some entry other than sample_period_end is not an accepted token
BadInterval(d) ==
    \E k \in DOMAIN d : k # "sample_period_end" /\ ~IsAcceptedInterval(d[k])

\* lines 70-81: the value checks, the date first. data_params["sample_period_end"]
\* raises TypeError when data_params is a str or a list, strptime when the value
\* is no str (line 74 catches ValueError only)
ValueError(data_params) ==
    IF data_params.t # "dict" THEN IndexError(data_params)
    ELSE IF data_params.items["sample_period_end"].t # "str"
    THEN Raise("TypeError", "strptime() argument 1 must be str",
               <<data_params.items["sample_period_end"].t>>)
    ELSE IF ~strptime_ok(data_params.items["sample_period_end"].chars)
    THEN Raise("ValueError",
               "Invalid date format in sample_period_end, expected YYYY-MM-DD.", <<>>)
    ELSE IF BadInterval(data_params.items)
    THEN Raise("ValueError", "Invalid date format in {key}, accepted values include: ...", <<>>)
    ELSE NoError

\* line 87: int(data_params["total_sample_period"][:-1])
total_sample_period_years(d) == IntVal(DropLast(d["total_sample_period"].chars))

\* line 88: int(sample_period_end[:4]) - total_sample_period_years
RequestedYear(d) ==
    IntVal(Take(d["sample_period_end"].chars, 4)) - total_sample_period_years(d)

\* line 88: f'{int(sample_period_end[:4]) - total_sample_period_years}{sample_period_end[4:]}'
SamplePeriodStart(d) == IntStr(RequestedYear(d)) \o Drop(d["sample_period_end"].chars, 4)

\* lines 86-88: int() of the period without its last character may fail
DeriveError(d) ==
    IF ~IntOk(DropLast(d["total_sample_period"].chars))
    THEN Raise("ValueError", "invalid literal for int() with base 10",
               <<DropLast(d["total_sample_period"].chars)>>)
    ELSE NoError

\* lines 43-88: everything retrieve_historical_returns does before its first fetch
ConfigError(src) ==
    IF LoadError(src).exc # "none" THEN LoadError(src)
    ELSE IF SchemaError(src.doc).exc # "none" THEN SchemaError(src.doc)
    ELSE IF ValueError(src.doc.items["dataParameters"]).exc # "none"
    THEN ValueError(src.doc.items["dataParameters"])
    ELSE DeriveError(src.doc.items["dataParameters"].items)

(***************************************************************************)
(* The availability check and the fetches (lines 90-112).                  *)
(***************************************************************************)
RECURSIVE MaxOf(_)
\* max(etf_start_years), for a non-empty list
MaxOf(ys) == IF Len(ys) = 1 THEN ys[1]
             ELSE IF ys[Len(ys)] > MaxOf(DropLast(ys)) THEN ys[Len(ys)]
             ELSE MaxOf(DropLast(ys))

RECURSIVE MinOf(_)
\* min(etf_start_years), for a non-empty list
MinOf(ys) == IF Len(ys) = 1 THEN ys[1]
             ELSE IF ys[Len(ys)] < MinOf(DropLast(ys)) THEN ys[Len(ys)]
             ELSE MinOf(DropLast(ys))

\* int(sample_period_start[:4])
StartYear(start) == IntVal(Take(start, 4))

RECURSIVE BadEtfs(_, _, _)
\* lines 96-99: the tickers whose first year is not the start year, in ticker order
BadEtfs(ts, ys, y0) ==
    IF Len(ys) = 0 THEN <<>>
    ELSE BadEtfs(DropLast(ts), DropLast(ys), y0)
            \o (IF ys[Len(ys)] # y0 THEN <<ts[Len(ys)]>> ELSE <<>>)

\* line 95: the condition under which the check raises
Inconsistent(ys, y0) == MaxOf(ys) # MinOf(ys) /\ MaxOf(ys) # y0

\* lines 95-100, evaluated as Python evaluates them: max() of an empty list
\* raises; int(sample_period_start[:4]) is evaluated only when the years differ
AvailabilityError(ts, ys, start) ==
    IF Len(ys) = 0
    THEN Raise("ValueError", "max() arg is an empty sequence", <<>>)
    ELSE IF MaxOf(ys) = MinOf(ys) THEN NoError
    ELSE IF ~IntOk(Take(start, 4))
    THEN Raise("ValueError", "invalid literal for int() with base 10", <<Take(start, 4)>>)
    ELSE IF Inconsistent(ys, StartYear(start))
    THEN Raise("ValueError",
               "Historical data during specified sample period does not exist for",
               BadEtfs(ts, ys, StartYear(start)))
    ELSE NoError

\* line 103: " ".join(tickers) raises on the first item that is no str
JoinError(ts) ==
    IF \A i \in 1..Len(ts) : ts[i].t = "str" THEN NoError
    ELSE Raise("TypeError", "sequence item: expected str instance",
               <<ts[CHOOSE i \in 1..Len(ts) :
                        /\ ts[i].t # "str"
                        /\ \A j \in 1..(i - 1) : ts[j].t = "str"].t>>)

RECURSIVE Join(_)
\* line 103: " ".join(tickers), for a list of str
Join(ts) == IF Len(ts) = 0 THEN <<>>
            ELSE IF Len(ts) = 1 THEN ts[1].chars
            ELSE Join(DropLast(ts)) \o <<" ">> \o ts[Len(ts)].chars

\* a call of yf.download
Download(what, symbols, start, end) ==
    [call |-> what, symbols |-> symbols, start |-> start, end |-> end]

\* the collaborator failed: its exception leaves retrieve_historical_returns
FetchFailure == Raise("FetchError", "yf.download raised", <<>>)

\* line 112: the return table (its cells are not modelled here)
ReturnsTable == [exc |-> "none", msg |-> "returns", arg |-> <<>>, bundle |-> <<>>]

\* the first years a probe reports here: the years around y0
ProbeYears(y0) == (y0 - 1)..(y0 + MaxYearOffset)

(***************************************************************************)
(* Inputs of retrieve_historical_returns.                                  *)
(***************************************************************************)
XLC == JStr(<<"X", "L", "C">>)
XLY == JStr(<<"X", "L", "Y">>)

Symbols == {XLC, XLY}

\* lists with an item that is no str: line 55 asks for a list only
OtherTickerLists == {<<JInt>>, <<JList(<<XLC>>)>>, <<JNull, XLC>>, <<XLC, JList(<<XLC>>)>>}

TickerLists == UNION {[1..n -> Symbols] : n \in 0..MaxTickers} \cup OtherTickerLists

\* ETFInfo["tickers"]: a list, or a value that is no list
TickersFields == {XLC, JNull} \cup {JList(l) : l \in TickerLists}

\* the key is not in the document
Missing == [t |-> "<missing>"]

D_2024_01_01 == <<"2", "0", "2", "4", "-", "0", "1", "-", "0", "1">>
D_2024_06_15 == <<"2", "0", "2", "4", "-", "0", "6", "-", "1", "5">>
D_2024_02_29 == <<"2", "0", "2", "4", "-", "0", "2", "-", "2", "9">>
D_2023_02_29 == <<"2", "0", "2", "3", "-", "0", "2", "-", "2", "9">>
D_2024_13_40 == <<"2", "0", "2", "4", "-", "1", "3", "-", "4", "0">>
D_2024_1_5   == <<"2", "0", "2", "4", "-", "1", "-", "5">>
D_01_01_2024 == <<"0", "1", "-", "0", "1", "-", "2", "0", "2", "4">>
D_slashes    == <<"2", "0", "2", "4", "/", "0", "1", "/", "0", "1">>
\* a blank before the day digit, a year in fullwidth digits, a month in them
D_blank_day  == <<"2", "0", "2", "4", "-", "0", "1", "-", " ", "5">>
D_wide_year  == <<"U+FF12", "U+FF10", "U+FF12", "U+FF14", "-", "0", "1", "-", "0", "5">>
D_wide_month == <<"2", "0", "2", "4", "-", "U+FF10", "1", "-", "0", "5">>
\* a year whose predecessors are written with fewer than four digits
D_0100_01_01 == <<"0", "1", "0", "0", "-", "0", "1", "-", "0", "1">>

StepValues   == {T_1mo, T_2wk}
PeriodValues == {T_1y, T_2y, T_5y, T_10y, T_1mo, T_1d, T_5yr}
EndValues    == {D_2024_01_01, D_2024_06_15, D_2024_02_29, D_2023_02_29,
                 D_2024_13_40, D_2024_1_5, D_01_01_2024, D_slashes,
                 D_blank_day, D_wide_year, D_wide_month, D_0100_01_01}
ExtraValues  == {T_3mo, T_2wk}

\* the dict of the keys whose value is not Missing
MkDict(step, period, end, extra) ==
    LET all == [k \in {"sample_time_step", "total_sample_period",
                       "sample_period_end", "comment"} |->
                    IF k = "sample_time_step" THEN step
                    ELSE IF k = "total_sample_period" THEN period
                    ELSE IF k = "sample_period_end" THEN end
                    ELSE extra]
    IN  JDict([k \in {x \in DOMAIN all : all[x] # Missing} |-> all[k]])

Strs(S) == {JStr(x) : x \in S}

\* dataParameters objects whose values are strings
StringParameters ==
    {MkDict(a, b, c, d) :
        a \in Strs(StepValues) \cup {Missing}, b \in Strs(PeriodValues) \cup {Missing},
        c \in Strs(EndValues) \cup {Missing}, d \in Strs(ExtraValues) \cup {Missing}}

\* dataParameters objects with a value that is no string
MixedParameters ==
    {MkDict(a, JStr(T_1y), c, d) :
        a \in {JStr(T_1mo), JInt},
        c \in {JStr(D_2024_01_01), JStr(D_slashes), JNull, JInt},
        d \in {Missing, JNull}}

\* the names of the three required keys, one after the other
AllKeyChars ==
    KeyChars("sample_time_step") \o <<" ">> \o KeyChars("total_sample_period")
        \o <<" ">> \o KeyChars("sample_period_end")

\* dataParameters that is no object
OtherParameters ==
    {JNull, JInt, JStr(<<>>), JStr(AllKeyChars), JList(<<>>),
     JList(<<JStr(KeyChars("sample_time_step")), JStr(KeyChars("total_sample_period")),
             JStr(KeyChars("sample_period_end"))>>)}

DataParameters == StringParameters \cup MixedParameters \cup OtherParameters

\* the document {"tickers": t, "dataParameters": d}, without the keys that are Missing
MkDoc(t, d) ==
    LET all == [k \in {"tickers", "dataParameters"} |-> IF k = "tickers" THEN t ELSE d]
    IN  JDict([k \in {x \in DOMAIN all : all[x] # Missing} |-> all[k]])

\* documents that are no object
OtherDocuments ==
    {JNull, JBool, JInt, JFloat, JStr(KeyChars("tickers")), JStr(<<"a", "b", "c">>),
     JList(<<>>), JList(<<JStr(KeyChars("tickers")), JStr(KeyChars("dataParameters"))>>)}

Documents ==
    {MkDoc(t, d) : t \in TickersFields \cup {Missing}, d \in DataParameters \cup {Missing}}
        \cup OtherDocuments

NoDoc == JNull

\* a path that does not exist, a directory, a file that may not be read, a file
\* that is not text in the default encoding, JSON nested deeper than the
\* recursion limit, JSON with an integer too long to convert, text that is not
\* JSON, and the files that decode
Sources ==
    {[kind |-> k, doc |-> NoDoc] :
        k \in {"missing", "directory", "unreadable", "not_text", "too_deep",
               "huge_int", "not_json"}}
        \cup {[kind |-> "json", doc |-> d] : d \in Documents}

\* variables of the other entry points, while retrieve_historical_returns runs
NoTable    == [index |-> <<>>, cells |-> <<>>, dtypes |-> <<>>]
NoDuration == [type |-> "int", val |-> 0]
NoMetrics  == [exc |-> "pending", msg |-> "", arg |-> <<>>, bundle |-> <<>>]

(***************************************************************************)
(* retrieve_historical_returns as a state machine: one step up to the      *)
(* first fetch, one step per call of yf.download.                          *)
(***************************************************************************)
Init ==
    /\ source \in Sources
    /\ pc = "start"
    /\ tickers = <<>>
    /\ sample_period_start = <<>>
    /\ sample_period_end = <<>>
    /\ etf_start_years = <<>>
    /\ calls = <<>>
    /\ result = NoMetrics
    /\ returns = NoTable
    /\ duration_months = NoDuration
    /\ metrics = NoMetrics

\* lines 43-88, the configuration is rejected
RejectConfig ==
    /\ pc = "start"
    /\ ConfigError(source).exc # "none"
    /\ pc' = "done"
    /\ result' = ConfigError(source)
    /\ UNCHANGED <<source, tickers, sample_period_start, sample_period_end,
                   etf_start_years, calls, returns, duration_months, metrics>>

\* lines 43-88, the configuration is accepted
AcceptConfig ==
    /\ pc = "start"
    /\ ConfigError(source).exc = "none"
    /\ pc' = "probing"
    /\ tickers' = source.doc.items["tickers"].items
    /\ sample_period_end' = source.doc.items["dataParameters"].items["sample_period_end"].chars
    /\ sample_period_start' = SamplePeriodStart(source.doc.items["dataParameters"].items)
    /\ UNCHANGED <<source, etf_start_years, calls, result, returns,
                   duration_months, metrics>>

\* line 91: the probe of the next ticker returns its first year
ProbeReturns ==
    /\ pc = "probing"
    /\ Len(etf_start_years) < Len(tickers)
    /\ \E y \in ProbeYears(RequestedYear(source.doc.items["dataParameters"].items)) :
          etf_start_years' = Append(etf_start_years, y)
    /\ calls' = Append(calls, Download("probe", <<tickers[Len(etf_start_years) + 1]>>,
                                       sample_period_start, sample_period_end))
    /\ UNCHANGED <<source, pc, tickers, sample_period_start, sample_period_end,
                   result, returns, duration_months, metrics>>

\* line 91 with a failed probe tried again (once at most per position)
ProbeFails_Retry ==
    /\ pc = "probing"
    /\ Len(etf_start_years) < Len(tickers)
    /\ Len(calls) <= Len(etf_start_years)
    /\ calls' = Append(calls, Download("probe", <<tickers[Len(etf_start_years) + 1]>>,
                                       sample_period_start, sample_period_end))
    /\ UNCHANGED <<source, pc, tickers, sample_period_start, sample_period_end,
                   etf_start_years, result, returns, duration_months, metrics>>

\* line 91: the probe of the next ticker raises
ProbeFails ==
    /\ pc = "probing"
    /\ Len(etf_start_years) < Len(tickers)
    /\ calls' = Append(calls, Download("probe", <<tickers[Len(etf_start_years) + 1]>>,
                                       sample_period_start, sample_period_end))
    /\ pc' = "done"
    /\ result' = FetchFailure
    /\ UNCHANGED <<source, tickers, sample_period_start, sample_period_end,
                   etf_start_years, returns, duration_months, metrics>>

\* lines 95-100: the availability check raises
AvailabilityFails ==
    /\ pc = "probing"
    /\ Len(etf_start_years) = Len(tickers)
    /\ AvailabilityError(tickers, etf_start_years, sample_period_start).exc # "none"
    /\ pc' = "done"
    /\ result' = AvailabilityError(tickers, etf_start_years, sample_period_start)
    /\ UNCHANGED <<source, tickers, sample_period_start, sample_period_end,
                   etf_start_years, calls, returns, duration_months, metrics>>

\* lines 95-103: the check passes, " ".join(tickers) raises, nothing is fetched
JoinFails ==
    /\ pc = "probing"
    /\ Len(etf_start_years) = Len(tickers)
    /\ AvailabilityError(tickers, etf_start_years, sample_period_start).exc = "none"
    /\ JoinError(tickers).exc # "none"
    /\ pc' = "done"
    /\ result' = JoinError(tickers)
    /\ UNCHANGED <<source, tickers, sample_period_start, sample_period_end,
                   etf_start_years, calls, returns, duration_months, metrics>>

\* lines 95-112: the check passes, the combined fetch returns, the table is returned
FetchCombined ==
    /\ pc = "probing"
    /\ Len(etf_start_years) = Len(tickers)
    /\ AvailabilityError(tickers, etf_start_years, sample_period_start).exc = "none"
    /\ JoinError(tickers).exc = "none"
    /\ calls' = Append(calls, Download("batch", Join(tickers),
                                       sample_period_start, sample_period_end))
    /\ pc' = "done"
    /\ result' = ReturnsTable
    /\ UNCHANGED <<source, tickers, sample_period_start, sample_period_end,
                   etf_start_years, returns, duration_months, metrics>>

\* lines 95-104: the check passes, the combined fetch raises
FetchCombinedFails ==
    /\ pc = "probing"
    /\ Len(etf_start_years) = Len(tickers)
    /\ AvailabilityError(tickers, etf_start_years, sample_period_start).exc = "none"
    /\ JoinError(tickers).exc = "none"
    /\ calls' = Append(calls, Download("batch", Join(tickers),
                                       sample_period_start, sample_period_end))
    /\ pc' = "done"
    /\ result' = FetchFailure
    /\ UNCHANGED <<source, tickers, sample_period_start, sample_period_end,
                   etf_start_years, returns, duration_months, metrics>>

Next ==
    \/ RejectConfig
    \/ AcceptConfig
    \/ ProbeReturns
    \/ ProbeFails
    \/ AvailabilityFails
    \/ JoinFails
    \/ FetchCombined
    \/ FetchCombinedFails

Spec == Init /\ [][Next]_vars

(***************************************************************************)
(* Dates (pandas Timestamps at midnight) and relativedelta(months=k).      *)
(***************************************************************************)
Date(y, m, d) == [year |-> y, month |-> m, day |-> d]

RECURSIVE DaysBeforeMonth(_, _)
DaysBeforeMonth(y, m) ==
    IF m = 1 THEN 0 ELSE DaysBeforeMonth(y, m - 1) + DaysInMonth(y, m - 1)

\* the day's number in the proleptic Gregorian calendar (date.toordinal())
Ordinal(t) ==
    365 * (t.year - 1) + ((t.year - 1) \div 4) - ((t.year - 1) \div 100)
        + ((t.year - 1) \div 400) + DaysBeforeMonth(t.year, t.month) + t.day

\* t + relativedelta(months=k): the month moves, the day is cut to the month's length
AddMonths(t, k) ==
    LET y == t.year + ((t.month - 1 + k) \div 12)
        m == ((t.month - 1 + k) % 12) + 1
    IN  Date(y, m, IF t.day < DaysInMonth(y, m) THEN t.day ELSE DaysInMonth(y, m))

Abs(x) == IF x < 0 THEN 0 - x ELSE x

(***************************************************************************)
(* construct_key_metrics (lines 138-151).                                  *)
(* A table is [index, cells, dtypes]: the row dates, the rows (one number  *)
(* per column, in whole units of return) and each column's dtype.          *)
(* Statistics are exact fractions; a volatility is kept as the fraction    *)
(* whose square root it is.                                                *)
(***************************************************************************)
RECURSIVE GCD(_, _)
GCD(a, b) == IF b = 0 THEN a ELSE GCD(b, a % b)

NaN == [nan |-> TRUE, num |-> 0, den |-> 1]

Fraction(n, d) ==
    LET g == GCD(Abs(n), d)
    IN  [nan |-> FALSE, num |-> n \div (IF g = 0 THEN 1 ELSE g),
         den |-> d \div (IF g = 0 THEN 1 ELSE g)]

RECURSIVE SumCol(_, _)
\* the sum of column c
SumCol(rows, c) ==
    IF Len(rows) = 0 THEN 0 ELSE SumCol(DropLast(rows), c) + rows[Len(rows)][c]

RECURSIVE SumProd(_, _, _)
\* the sum of the products of columns c and e
SumProd(rows, c, e) ==
    IF Len(rows) = 0 THEN 0
    ELSE SumProd(DropLast(rows), c, e) + rows[Len(rows)][c] * rows[Len(rows)][e]

\* the sample covariance (N-1 in the denominator) of columns c and e; NaN under two rows
Cov(rows, c, e) ==
    IF Len(rows) < 2 THEN NaN
    ELSE Fraction(Len(rows) * SumProd(rows, c, e) - SumCol(rows, c) * SumCol(rows, e),
                  Len(rows) * (Len(rows) - 1))

\* returns.shape
Shape(t) == <<Len(t.index), Len(t.dtypes)>>

\* line 140: DataFrame.cov() raises on a column that is not numeric
cov_raises(t) == \E c \in 1..Len(t.dtypes) : t.dtypes[c] # "float64"

\* line 146: DataFrame.std() raises on a column that is not numeric
std_raises(t) == \E c \in 1..Len(t.dtypes) : t.dtypes[c] # "float64"

\* returns.cov()
covariance_matrix(t) ==
    [c \in 1..Len(t.dtypes) |-> [e \in 1..Len(t.dtypes) |-> Cov(t.cells, c, e)]]

\* returns.std()
volatilities(t) == [c \in 1..Len(t.dtypes) |-> [sqrt_of |-> Cov(t.cells, c, c)]]

\* lines 138-151; neither message is an f-string, so nothing is formatted into it
construct_key_metrics(t) ==
    IF cov_raises(t)
    THEN Raise("RuntimeError",
               "Error calculating covariance matrix. Returns matrix of shape: {returns.shape}",
               <<>>)
    ELSE IF std_raises(t)
    THEN Raise("RuntimeError",
               "Error calculating volatilities. Returns matrix of shape: {returns.shape}",
               <<>>)
    ELSE [exc |-> "none", msg |-> "", arg |-> <<>>,
          bundle |-> <<t, volatilities(t), covariance_matrix(t)>>]

(***************************************************************************)
(* backtest_resample (lines 180-201).                                      *)
(* A duration is [type, val]: the Python type's name and, for int and bool *)
(* the value, for float twice the value (so 2.5 is val 5).                 *)
(***************************************************************************)
\* line 181: duration_months <= 0 or type(duration_months) != int
DurationError(d) ==
    IF d.type \in {"str", "NoneType"}
    THEN Raise("TypeError", "'<=' not supported between instances", <<d.type>>)
    ELSE IF d.val <= 0 \/ d.type # "int"
    THEN Raise("ValueError", "Duration must be a positive integer.", <<d.type>>)
    ELSE NoError

\* line 187
end_date(t, k) == AddMonths(t.index[1], k)

\* line 190 without "and duration_months != len(...)"
ExceedsHistory_NoExactCount(t, k) ==
    Ordinal(t.index[Len(t.index)]) < Ordinal(end_date(t, k))

\* line 190
ExceedsHistory(t, k) ==
    Ordinal(t.index[Len(t.index)]) < Ordinal(end_date(t, k)) /\ k # Len(t.index)

\* line 193 keeping the last of the nearest dates
ClosestIndex_LastNearest(dates, e) ==
    CHOOSE i \in 1..Len(dates) :
        /\ \A j \in 1..Len(dates) :
              Abs(Ordinal(dates[i]) - Ordinal(e)) <= Abs(Ordinal(dates[j]) - Ordinal(e))
        /\ \A j \in (i + 1)..Len(dates) :
              Abs(Ordinal(dates[j]) - Ordinal(e)) > Abs(Ordinal(dates[i]) - Ordinal(e))

\* line 193: min(full_dates, key=...) keeps the first of the nearest dates
ClosestIndex(dates, e) ==
    CHOOSE i \in 1..Len(dates) :
        /\ \A j \in 1..Len(dates) :
              Abs(Ordinal(dates[i]) - Ordinal(e)) <= Abs(Ordinal(dates[j]) - Ordinal(e))
        /\ \A j \in 1..(i - 1) :
              Abs(Ordinal(dates[j]) - Ordinal(e)) > Abs(Ordinal(dates[i]) - Ordinal(e))

closest_date(t, k) == t.index[ClosestIndex(t.index, end_date(t, k))]

RECURSIVE RowsBetween(_, _, _)
\* the positions of the rows whose date lies in lo..hi, in order
RowsBetween(dates, lo, hi) ==
    IF Len(dates) = 0 THEN <<>>
    ELSE RowsBetween(DropLast(dates), lo, hi)
            \o (IF lo <= Ordinal(dates[Len(dates)]) /\ Ordinal(dates[Len(dates)]) <= hi
                THEN <<Len(dates)>> ELSE <<>>)

\* line 196 with the slice's end left out
durated_returns_Exclusive(t, k) ==
    LET rows == RowsBetween(t.index, Ordinal(t.index[1]),
                            Ordinal(closest_date(t, k)) - 1)
    IN  [index  |-> [i \in 1..Len(rows) |-> t.index[rows[i]]],
         cells  |-> [i \in 1..Len(rows) |-> t.cells[rows[i]]],
         dtypes |-> t.dtypes]

\* line 196: returns.loc[start_date:closest_date], a slice by label, both ends included
durated_returns(t, k) ==
    LET rows == RowsBetween(t.index, Ordinal(t.index[1]), Ordinal(closest_date(t, k)))
    IN  [index  |-> [i \in 1..Len(rows) |-> t.index[rows[i]]],
         cells  |-> [i \in 1..Len(rows) |-> t.cells[rows[i]]],
         dtypes |-> t.dtypes]

\* lines 180-201
backtest_resample(t, d) ==
    IF DurationError(d).exc # "none" THEN DurationError(d)
    ELSE IF Len(t.index) = 0
    THEN Raise("IndexError", "index 0 is out of bounds for axis 0 with size 0", <<>>)
    ELSE IF ExceedsHistory(t, d.val)
    THEN Raise("ValueError", "Duration exceeds the length of the returns DataFrame.", <<>>)
    ELSE construct_key_metrics(durated_returns(t, d.val))

(***************************************************************************)
(* Inputs of backtest_resample and construct_key_metrics.                  *)
(***************************************************************************)
\* the last day of month m of year y
MonthEnd(y, m) == Date(y, m, DaysInMonth(y, m))

\* line 107: resample('ME') gives one row per calendar month, dated at the month's end
MonthlyIndex(y, m, n) ==
    [i \in 1..n |-> MonthEnd(y + ((m + i - 2) \div 12), ((m + i - 2) % 12) + 1)]

FirstYear == 2023

MonthlyIndexes == {MonthlyIndex(FirstYear, m, n) : m \in 1..12, n \in 1..MaxRows}

\* other row dates a caller's table may carry, in increasing order
DatePool == <<Date(2024, 1, 15), Date(2024, 2, 13), Date(2024, 2, 17),
              Date(2024, 3, 15), Date(2024, 6, 30), Date(2025, 1, 15)>>

RECURSIVE Ascending(_)
\* the members of a set of positions, in increasing order
Ascending(S) ==
    IF S = {} THEN <<>>
    ELSE LET hi == CHOOSE x \in S : \A z \in S : z <= x
         IN  Ascending(S \ {hi}) \o <<hi>>

IrregularIndexes ==
    {[i \in 1..Cardinality(S) |-> DatePool[Ascending(S)[i]]] :
        S \in {X \in SUBSET (1..Len(DatePool)) : Cardinality(X) \in 1..MaxRows}}

\* lines 107-110: the first row of a return table is all zeros
ZeroRow == <<0, 0>>
RowValues == {<<1, -1>>, <<2, 0>>}

CellsFor(n) ==
    {[i \in 1..n |-> IF i = 1 THEN ZeroRow ELSE f[i]] : f \in [1..n -> RowValues]}

\* return tables: strictly increasing dates, numeric cells
ReturnSeries ==
    UNION {{[index |-> ix, cells |-> cs, dtypes |-> <<"float64", "float64">>] :
                cs \in CellsFor(Len(ix))} :
            ix \in MonthlyIndexes \cup IrregularIndexes}

\* any table a caller may hand to construct_key_metrics
AnyTables ==
    UNION {{[index |-> ix, cells |-> cs, dtypes |-> dt] :
                cs \in CellsFor(Len(ix)),
                dt \in [1..2 -> {"float64", "object"}]} :
            ix \in MonthlyIndexes}

Durations ==
    {[type |-> "int", val |-> v] : v \in (0 - 3)..(MaxRows + 2)}
        \cup {[type |-> "float", val |-> v] : v \in {0 - 3, 0, 5, 6}}
        \cup {[type |-> "bool", val |-> v] : v \in {0, 1}}
        \cup {[type |-> "str", val |-> 0], [type |-> "NoneType", val |-> 0]}

(***************************************************************************)
(* backtest_resample and construct_key_metrics as one-step state machines. *)
(***************************************************************************)
InitIdle ==
    /\ source = [kind |-> "missing", doc |-> NoDoc]
    /\ tickers = <<>>
    /\ sample_period_start = <<>>
    /\ sample_period_end = <<>>
    /\ etf_start_years = <<>>
    /\ calls = <<>>
    /\ result = NoMetrics
    /\ metrics = NoMetrics

InitBacktest ==
    /\ InitIdle
    /\ pc = "call"
    /\ returns \in ReturnSeries
    /\ duration_months \in Durations

\* lines 180-201
BacktestResample ==
    /\ pc = "call"
    /\ pc' = "returned"
    /\ metrics' = backtest_resample(returns, duration_months)
    /\ UNCHANGED <<source, tickers, sample_period_start, sample_period_end,
                   etf_start_years, calls, result, returns, duration_months>>

NextBacktest == BacktestResample

SpecBacktest == InitBacktest /\ [][NextBacktest]_vars

InitEngine ==
    /\ InitIdle
    /\ pc = "call"
    /\ returns \in AnyTables
    /\ duration_months = NoDuration

\* lines 138-151
ConstructKeyMetrics ==
    /\ pc = "call"
    /\ pc' = "returned"
    /\ metrics' = construct_key_metrics(returns)
    /\ UNCHANGED <<source, tickers, sample_period_start, sample_period_end,
                   etf_start_years, calls, result, returns, duration_months>>

NextEngine == ConstructKeyMetrics

SpecEngine == InitEngine /\ [][NextEngine]_vars

(***************************************************************************)
(* The properties.                                                         *)
(***************************************************************************)
\* the words of the specification, in terms of the code's exceptions
IsDataUnavailable(r) ==
    /\ r.exc = "ValueError"
    /\ r.msg = "Historical data during specified sample period does not exist for"

IsSchemaError(r) == r.exc = "KeyError"

IsDateError(r) ==
    /\ r.exc = "ValueError"
    /\ r.msg = "Invalid date format in sample_period_end, expected YYYY-MM-DD."

IsTokenError(r) ==
    /\ r.exc = "ValueError"
    /\ r.msg = "Invalid date format in {key}, accepted values include: ..."

IsDurationError(r) ==
    /\ r.exc = "ValueError"
    /\ r.msg = "Duration must be a positive integer."

IsExceedsError(r) ==
    /\ r.exc = "ValueError"
    /\ r.msg = "Duration exceeds the length of the returns DataFrame."

\* the configuration passed every check and every probe returned
AvailabilityChecked ==
    /\ pc = "done"
    /\ ConfigError(source).exc = "none"
    /\ Len(etf_start_years) = Len(tickers)

YearSet == {etf_start_years[i] : i \in 1..Len(etf_start_years)}

\* the year of sample_period_end less the years of total_sample_period
RequestedStartYear ==
    IntVal(Take(sample_period_end, 4))
        - IntVal(DropLast(
              source.doc.items["dataParameters"].items["total_sample_period"].chars))

\* S has more than one value and its maximum is not the requested start year
YearsDisagree ==
    /\ Cardinality(YearSet) > 1
    /\ (CHOOSE y \in YearSet : \A z \in YearSet : z <= y) # RequestedStartYear

\* the tickers whose first year is not the requested start year, in ticker order
OffendingTickers ==
    LET pos == Ascending({i \in 1..Len(tickers) : etf_start_years[i] # RequestedStartYear})
    IN  [k \in 1..Len(pos) |-> tickers[pos[k]]]

BatchIssued == Len(calls) > 0 /\ calls[Len(calls)].call = "batch"

AvailabilityContract ==
    /\ IsDataUnavailable(result) <=> YearsDisagree
    /\ IsDataUnavailable(result) => result.arg = OffendingTickers
    /\ ~YearsDisagree => BatchIssued

\* C1: once every probe has returned, the build fails with DataUnavailable exactly
\* when the first years take more than one value and their maximum is not the
\* requested start year; the error names exactly the tickers whose first year is not
\* the start year, in ticker order; otherwise the combined fetch is issued.
C1_AvailabilityCheck == AvailabilityChecked => AvailabilityContract

\* C1 for the configurations that name at least one ticker, all of them
\* strings, and whose start date begins with four digits
C1_AvailabilityCheckOfSymbols ==
    (/\ AvailabilityChecked
     /\ Len(tickers) > 0
     /\ \A i \in 1..Len(tickers) : tickers[i].t = "str"
     /\ Len(sample_period_start) >= 4
     /\ \A i \in 1..4 : IsDigit(sample_period_start[i])) => AvailabilityContract

(***************************************************************************)
(* backtest_resample.                                                      *)
(***************************************************************************)
Returned == pc = "returned"

RowCount == Len(returns.index)

FirstDate == returns.index[1]

LastDate == returns.index[RowCount]

PositiveInt(d) == d.type = "int" /\ d.val > 0

\* first row date + duration_months calendar months
NominalEnd == AddMonths(FirstDate, duration_months.val)

\* the distance in days between a row date and the nominal end date
Distance(i) == Abs(Ordinal(returns.index[i]) - Ordinal(NominalEnd))

\* the first k rows of the table
Prefix(t, k) == [index |-> SubSeq(t.index, 1, k), cells |-> SubSeq(t.cells, 1, k),
                 dtypes |-> t.dtypes]

IsBundle(r) == r.exc = "none" /\ Len(r.bundle) = 3

TooLong ==
    /\ Ordinal(LastDate) < Ordinal(NominalEnd)
    /\ duration_months.val # RowCount

\* C2: for a positive integer duration, backtest_resample fails with "duration
\* exceeds available history" exactly when the last row date is strictly earlier
\* than the nominal end date and the duration is not the row count; in every other
\* case it returns a metrics bundle.
C2_ExceedsHistory ==
    (Returned /\ PositiveInt(duration_months)) =>
        /\ IsExceedsError(metrics) <=> TooLong
        /\ ~TooLong => IsBundle(metrics)

C2_Witness ==
    /\ Returned
    /\ PositiveInt(duration_months)
    /\ TooLong
    /\ duration_months.val < RowCount
    /\ IsExceedsError(metrics)

\* C3: backtest_resample fails with ValidationError for every duration that is not
\* a positive integer (0, negative integers, fractions, booleans, strings, None),
\* and returns no bundle.
C3_DurationRejected ==
    (Returned /\ ~PositiveInt(duration_months)) =>
        IsDurationError(metrics) /\ metrics.bundle = <<>>

\* C3 for the durations Python can compare with 0 (int, float, bool)
C3_NumericDurationRejected ==
    (Returned /\ ~PositiveInt(duration_months)
        /\ duration_months.type \in {"int", "float", "bool"}) =>
        IsDurationError(metrics) /\ metrics.bundle = <<>>

FullLength == duration_months.type = "int" /\ duration_months.val = RowCount

FullSeriesMetrics ==
    /\ IsBundle(metrics)
    /\ closest_date(returns, duration_months.val) = LastDate
    /\ Len(metrics.bundle[1].index) = RowCount
    /\ metrics = construct_key_metrics(returns)

\* C4 as stated: for every table of N >= 1 rows in increasing date order,
\* backtest_resample(series, N) selects the last row, keeps all N rows and returns
\* the bundle construct_key_metrics returns for the whole table.
C4_FullLengthAnySeries == (Returned /\ FullLength) => FullSeriesMetrics

\* C4, amended: the same, for the tables whose last row date is not later than the
\* nominal end date (first row date + N months), as in a table of month-end rows.
C4_FullLength ==
    (Returned /\ FullLength /\ Ordinal(LastDate) <= Ordinal(NominalEnd)) =>
        FullSeriesMetrics

C4_Witness ==
    /\ Returned
    /\ FullLength
    /\ RowCount >= 3
    /\ Ordinal(LastDate) < Ordinal(NominalEnd)
    /\ IsBundle(metrics)
    /\ metrics.bundle[1] = returns

Accepted == PositiveInt(duration_months) /\ ~TooLong

\* C5: when backtest_resample accepts its inputs, the window ends at a row date
\* nearest to the nominal end date, the earlier one of two equidistant dates, and
\* the returns table of the result is the prefix of the input through that row:
\* not empty, no longer than the input, first row unchanged.
C5_NearestPrefix ==
    (Returned /\ Accepted) =>
        /\ IsBundle(metrics)
        /\ \E k \in 1..RowCount :
              /\ \A j \in 1..RowCount : Distance(k) <= Distance(j)
              /\ \A j \in 1..RowCount :
                    Distance(j) = Distance(k) =>
                        Ordinal(returns.index[k]) <= Ordinal(returns.index[j])
              /\ closest_date(returns, duration_months.val) = returns.index[k]
              /\ metrics.bundle[1] = Prefix(returns, k)
        /\ Len(metrics.bundle[1].index) \in 1..RowCount
        /\ metrics.bundle[1].cells[1] = returns.cells[1]

\* two rows are equidistant from the nominal end date and nearest to it
C5_Witness ==
    /\ Returned
    /\ Accepted
    /\ IsBundle(metrics)
    /\ \E i, j \in 1..RowCount :
          /\ i < j
          /\ Distance(i) = Distance(j)
          /\ \A m \in 1..RowCount : Distance(i) <= Distance(m)
          /\ Len(metrics.bundle[1].index) = i

(***************************************************************************)
(* The configuration checks.                                               *)
(***************************************************************************)
Done == pc = "done"

Decoded == source.kind = "json"

\* the decoded document
Doc == source.doc

\* the document is an object with a member k
Member(k) == Doc.t = "dict" /\ k \in DOMAIN Doc.items

\* tickers is present and a sequence
TickersOk == Member("tickers") /\ Doc.items["tickers"].t = "list"

ParamsPresent == Member("dataParameters")

\* dataParameters is an object with a member k
KeyPresent(k) ==
    /\ ParamsPresent
    /\ Doc.items["dataParameters"].t = "dict"
    /\ k \in DOMAIN Doc.items["dataParameters"].items

\* a value that is no text
NoText == <<"<no text>">>

\* the entries of dataParameters as texts
Params ==
    [k \in DOMAIN Doc.items["dataParameters"].items |->
        IF Doc.items["dataParameters"].items[k].t = "str"
        THEN Doc.items["dataParameters"].items[k].chars
        ELSE NoText]

SchemaOk ==
    /\ Decoded
    /\ TickersOk
    /\ ParamsPresent
    /\ \A k \in {"sample_time_step", "total_sample_period", "sample_period_end"} :
          KeyPresent(k)

\* the validator's date check accepts sample_period_end
DateParses == strptime_ok(Params["sample_period_end"])

\* s is written YYYY-MM-DD: four digits, two digits, two digits, dashes between,
\* naming a day of the calendar
IsYMD(s) ==
    /\ Len(s) = 10
    /\ s[5] = "-"
    /\ s[8] = "-"
    /\ \A i \in {1, 2, 3, 4, 6, 7, 9, 10} : s[i] \in {DigitChars[j] : j \in 1..10}
    /\ NatVal(SubSeq(s, 1, 4)) >= 1
    /\ NatVal(SubSeq(s, 6, 7)) \in 1..12
    /\ NatVal(SubSeq(s, 9, 10)) \in
          1..DaysInMonth(NatVal(SubSeq(s, 1, 4)), NatVal(SubSeq(s, 6, 7)))

DateIsYMD == IsYMD(Params["sample_period_end"])

AcceptedTokens ==
    {<<"1", "d">>, <<"5", "d">>, <<"1", "m", "o">>, <<"3", "m", "o">>, <<"6", "m", "o">>,
     <<"1", "y">>, <<"2", "y">>, <<"5", "y">>, <<"1", "0", "y">>}

SomeBadToken ==
    \E k \in DOMAIN Params \ {"sample_period_end"} : Params[k] \notin AcceptedTokens

\* C6: a document that passes the schema checks fails with ValidationError when
\* sample_period_end is no YYYY-MM-DD date, or when an entry other than
\* sample_period_end (required or additional) is no accepted token; the date is
\* checked first, and no fetch is issued in either case.
C6_ValueChecks ==
    (Done /\ SchemaOk) =>
        /\ ~DateIsYMD => IsDateError(result) /\ calls = <<>>
        /\ (DateIsYMD /\ SomeBadToken) => IsTokenError(result) /\ calls = <<>>

\* The part of C6 that the code keeps: for a sample_period_end that is a string,
\* with "is no YYYY-MM-DD date" read as "is refused by strptime under %Y-%m-%d",
\* the date error comes first, then the token error, and no fetch is issued in
\* either case.
C6_ValueChecksAsParsed ==
    (Done /\ SchemaOk /\ Params["sample_period_end"] # NoText) =>
        /\ ~DateParses => IsDateError(result) /\ calls = <<>>
        /\ (DateParses /\ SomeBadToken) => IsTokenError(result) /\ calls = <<>>

\* every YYYY-MM-DD date is accepted by the date check
C6_YMDAccepted == (pc # "start" /\ SchemaOk /\ DateIsYMD) => DateParses

\* the date and an additional key are both invalid: the date error is raised
C6_Witness ==
    /\ Done
    /\ SchemaOk
    /\ ~DateParses
    /\ "comment" \in DOMAIN Params
    /\ Params["comment"] \notin AcceptedTokens
    /\ Params["sample_time_step"] \in AcceptedTokens
    /\ IsDateError(result)

\* a date that is not written YYYY-MM-DD passes the date check
C6_LenientDate ==
    /\ Done
    /\ SchemaOk
    /\ ~DateIsYMD
    /\ DateParses
    /\ ~IsDateError(result)

\* the first of the required keys, in the order of the code, that is absent
FirstAbsentKey ==
    IF ~KeyPresent("sample_time_step") THEN "sample_time_step"
    ELSE IF ~KeyPresent("total_sample_period") THEN "total_sample_period"
    ELSE "sample_period_end"

\* C7: a source that exists and decodes fails with SchemaError when tickers is
\* absent or no list, when dataParameters is absent, or when one of the three
\* required keys is absent; the checks are made in that order and before any value
\* check, so a schema defect is reported whatever the values are.
C7_SchemaChecks ==
    (Done /\ Decoded) =>
        /\ ~TickersOk =>
              /\ IsSchemaError(result)
              /\ result.msg = "Missing or invalid 'tickers' in JSON file."
        /\ (TickersOk /\ ~ParamsPresent) =>
              /\ IsSchemaError(result)
              /\ result.msg = "Missing 'dataParameters' in JSON file."
        /\ (TickersOk /\ ParamsPresent /\ ~SchemaOk) =>
              /\ IsSchemaError(result)
              /\ result.arg = <<FirstAbsentKey>>
        /\ ~SchemaOk => calls = <<>>

\* The part of C7 that the code keeps: the same, for a document that is an
\* object whose dataParameters, when present, is an object.
C7_SchemaChecksOfObjects ==
    (Done /\ Decoded /\ Doc.t = "dict"
          /\ (ParamsPresent => Doc.items["dataParameters"].t = "dict")) =>
        /\ ~TickersOk =>
              /\ IsSchemaError(result)
              /\ result.msg = "Missing or invalid 'tickers' in JSON file."
        /\ (TickersOk /\ ~ParamsPresent) =>
              /\ IsSchemaError(result)
              /\ result.msg = "Missing 'dataParameters' in JSON file."
        /\ (TickersOk /\ ParamsPresent /\ ~SchemaOk) =>
              /\ IsSchemaError(result)
              /\ result.arg = <<FirstAbsentKey>>
        /\ ~SchemaOk => calls = <<>>

\* a required key is absent and the date is invalid: SchemaError
C7_Witness ==
    /\ Done
    /\ Decoded
    /\ TickersOk
    /\ ParamsPresent
    /\ ~KeyPresent("total_sample_period")
    /\ KeyPresent("sample_period_end")
    /\ ~DateParses
    /\ IsSchemaError(result)
    /\ result.arg = <<"total_sample_period">>

PassesChecks == SchemaOk /\ DateParses /\ ~SomeBadToken

\* "<N>y" for a positive whole number N
DenotesYears(v) ==
    /\ Len(v) >= 2
    /\ v[Len(v)] = "y"
    /\ AllDigits(DropLast(v))
    /\ NatVal(DropLast(v)) > 0

\* sample_period_end with its year less n, month and day unchanged
YearReduced(e, n) == IntStr(NatVal(Take(e, 4)) - n) \o Drop(e, 4)

\* C8: every configuration that passes the checks has a total_sample_period of
\* the form "<N>y" with N a positive whole number, and sample_period_start is
\* derived without error as sample_period_end with its year reduced by N.
C8_WholeYears ==
    (pc # "start" /\ PassesChecks) =>
        /\ DenotesYears(Params["total_sample_period"])
        /\ ~(Done /\ result.exc = "ValueError"
                /\ result.msg = "invalid literal for int() with base 10")
        /\ sample_period_start =
              YearReduced(Params["sample_period_end"],
                          NatVal(DropLast(Params["total_sample_period"])))

\* C8 for the configurations whose total_sample_period is "<N>y": the start date
\* is bound, to sample_period_end with its year reduced by N
C8_WholeYearsWhenYears ==
    (pc # "start" /\ PassesChecks /\ DenotesYears(Params["total_sample_period"])) =>
        /\ sample_period_start =
              YearReduced(Params["sample_period_end"],
                          NatVal(DropLast(Params["total_sample_period"])))

(***************************************************************************)
(* construct_key_metrics.                                                  *)
(***************************************************************************)
\* C9: when the covariance or the volatility cannot be computed,
\* construct_key_metrics fails with ComputationError, its message holds the shape
\* (rows, columns) of the table, and no bundle is returned.
C9_ErrorReportsShape ==
    (Returned /\ (cov_raises(returns) \/ std_raises(returns))) =>
        /\ metrics.exc = "RuntimeError"
        /\ metrics.bundle = <<>>
        /\ Len(metrics.arg) = 1
        /\ metrics.arg[1] = Shape(returns)

\* C9 without the shape: the failure is a ComputationError and no bundle is returned
C9_ErrorRaised ==
    (Returned /\ (cov_raises(returns) \/ std_raises(returns))) =>
        /\ metrics.exc = "RuntimeError"
        /\ metrics.bundle = <<>>

(***************************************************************************)
(* The order of the fetches.                                               *)
(***************************************************************************)
\* the i-th call is the probe of the i-th ticker, the call after them the batch
CallsInOrder ==
    /\ Len(calls) <= Len(tickers) + 1
    /\ \A i \in 1..Len(calls) :
          IF i <= Len(tickers)
          THEN calls[i].call = "probe" /\ calls[i].symbols = <<tickers[i]>>
          ELSE calls[i].call = "batch"

FetchOrder ==
    /\ calls # <<>> => PassesChecks
    /\ CallsInOrder
    /\ Len(etf_start_years) <= Len(calls)
    /\ BatchIssued =>
          /\ Len(etf_start_years) = Len(tickers)
          /\ ~YearsDisagree
          /\ ~IsDataUnavailable(result)
    /\ IsDataUnavailable(result) => Len(calls) = Len(tickers)
    /\ result.exc = "FetchError" =>
          /\ Done
          /\ Len(calls) = Len(etf_start_years) + 1

\* C10: no fetch before the configuration checks passed; then one probe per
\* ticker, in ticker order, never repeated; the batched fetch only after every
\* probe returned and the availability check passed, never after DataUnavailable;
\* a failed fetch ends the run and nothing is fetched once the run has ended.
C10_FetchSequence ==
    /\ []FetchOrder
    /\ [][(pc = "done" => calls' = calls) /\ Len(calls') <= Len(calls) + 1]_vars

C10_Witness ==
    /\ Done
    /\ Len(tickers) = 2
    /\ Len(calls) = 3
    /\ calls[3].call = "batch"
    /\ result.exc = "none"

=============================================================================
